---- MODULE Spec2Model ----
(***************************************************************************)
(* The Conversation class of gpt-turbo (src/unnamed/part_002) as a state   *)
(* machine.  One caller issues the public operations one after another     *)
(* (each asynchronous call is awaited before the next operation); the      *)
(* promises the code never awaits (the context admission started by        *)
(* clearMessages/setContext, the reader of a streamed response) run in the *)
(* background and interleave at the suspension points of the code.         *)
(*                                                                         *)
(* Message, ConversationConfig, the completion client and the moderation   *)
(* client are not part of the source under study; they are modelled from   *)
(* the specification (sections 3, 4.1 and 6).                              *)
(***************************************************************************)
EXTENDS Integers, Sequences, FiniteSets, TLC

\* ------------------------------------------------------------- bounds
\* Number of Message objects ever created (ids are 1..MaxIds, never reused).
MaxIds == 3
\* Longest list of subscribed listeners of one kind.
MaxListeners == 2
\* Context admissions nobody awaits that may be pending when the caller
\* starts another one.
MaxPendingContexts == 1
\* Streamed responses still being read when the caller asks for another
\* completion.
MaxStreams == 1

\* ------------------------------------------------------ input domains
\* A text is a sequence of characters: " " is whitespace, "x" is a character
\* the moderation service flags, "a" is harmless.
Texts == { <<" ">>, <<"a">>, <<"x", " ">> }
ContextTexts == { <<>>, <<"a">>, <<"x">> }
NewPrompts == { <<>>, <<"x">> }
Replies == { <<"a">>, <<"x">> }
Listeners == { "l1", "l2" }
Moderations == { "off", "soft", "strict" }
StreamOptions == { "unset" }
Unset == <<"unset">>

Ids == 1..MaxIds

VARIABLES
    messages,               \* Conversation.messages, as the sequence of message ids
    heap,                   \* the Message objects: id -> [role, content]
    config,                 \* Conversation.config
    tasks,                  \* the suspended asynchronous calls
    nextId,                 \* the next fresh message id
    cumulativeSize,
    cumulativeCost,
    addMessageListeners,
    removeMessageListeners,
    events,                 \* the notifications made by the last step, in order
    result,                 \* the caller's call that ran in the last step and how it left
    charged,                \* history: responses whose size/cost entered the counters
    transportFailed         \* history: responses whose completion request failed

vars == << messages, heap, config, tasks, nextId, cumulativeSize, cumulativeCost,
           addMessageListeners, removeMessageListeners, events, result,
           charged, transportFailed >>

NoMsg == [role |-> "none", content |-> <<>>]
\* A call: the operation, where it is suspended (pc), the message it is
\* admitting (msg), the user message or branch point its catch block removes
\* (user, 0 outside the try block), the message id (from), the stream option
\* and the new prompt it was given, and what it saw when it was called: the
\* history (pre) and whether no context admission was pending (quiet).
NoCall ==
    [ kind |-> "none", pc |-> "start", msg |-> 0, user |-> 0, from |-> 0,
      opt |-> "unset", arg |-> <<>>, data |-> <<>>, flagged |-> FALSE,
      pre |-> <<>>, quiet |-> TRUE ]

\* status: "none" (no call of the caller ran), "suspended", "ok" (msg is the
\* message returned) or the error thrown.
NoResult == [status |-> "none", msg |-> 0, call |-> NoCall]

\* ------------------------------------------------------------ Message
RECURSIVE TrimStart(_)
TrimStart(c) == IF c # <<>> /\ Head(c) = " " THEN TrimStart(Tail(c)) ELSE c

RECURSIVE TrimEnd(_)
TrimEnd(c) ==
    IF c # <<>> /\ c[Len(c)] = " " THEN TrimEnd(SubSeq(c, 1, Len(c) - 1)) ELSE c

\* String.prototype.trim
Trim(c) == TrimEnd(TrimStart(c))

\* Token count of a text: one token per character.
getMessageSize(content) == Len(content)

PromptPrice == 1
CompletionPrice == 2

\* Message.size and Message.cost: recomputed from the current content.
MessageSize(m) == getMessageSize(m.content)
MessageCost(m) ==
    MessageSize(m) * (IF m.role = "assistant" THEN CompletionPrice ELSE PromptPrice)

\* The moderation service flags a text iff it holds the character "x".
Flagged(content) == \E i \in 1..Len(content) : content[i] = "x"

\* -------------------------------------------------- ConversationConfig
isModerationEnabled(c) == c.moderation # "off"
isModerationStrict(c) == c.moderation = "strict"

\* The context of a config that names none.
DefaultContext == <<"a">>

\* new ConversationConfig(params): an absent context takes the default.
ConversationConfig(moderation, stream, dry, context) ==
    [ moderation |-> moderation, stream |-> stream, dry |-> dry,
      context |-> IF context = Unset THEN DefaultContext ELSE context ]

\* ---------------------------------------------------------- the state
Cur ==
    [ messages |-> messages, heap |-> heap, config |-> config, tasks |-> tasks,
      nextId |-> nextId, cumulativeSize |-> cumulativeSize,
      cumulativeCost |-> cumulativeCost,
      addMessageListeners |-> addMessageListeners,
      removeMessageListeners |-> removeMessageListeners,
      events |-> events, result |-> result,
      charged |-> charged, transportFailed |-> transportFailed ]

\* The state an operation starts from: it has notified nobody and returned nothing yet.
Begin == [Cur EXCEPT !.events = <<>>, !.result = NoResult]

Range(seq) == { seq[i] : i \in 1..Len(seq) }

\* The Message objects the program still holds: those of the history and those
\* a suspended call works on.
Held(s) == Range(s.messages) \cup { t.msg : t \in s.tasks } \cup { t.user : t \in s.tasks }

\* The ids the program has seen so far: an id is taken from the generator
\* when its object is first kept.
Known(s) == (Held(s) \cup UNION { Range(t.pre) : t \in s.tasks }) \ {0}

Max(S) == CHOOSE x \in S : \A y \in S : y <= x

\* What is kept of a state: objects nothing refers to any more are dropped,
\* and the id generator stands after the last id seen (first: where it stood).
Kept(s, first) ==
    [s EXCEPT !.heap = [i \in Ids |-> IF i \in Held(s) THEN s.heap[i] ELSE NoMsg],
              !.nextId = Max({first} \cup { i + 1 : i \in Known(s) }),
              !.charged = @ \cap Held(s),
              !.transportFailed = @ \cap Held(s)]

\* The state after a step.
Commit(s) ==
    \E k \in {Kept(s, nextId)} :
        /\ messages' = k.messages
        /\ heap' = k.heap
        /\ config' = k.config
        /\ tasks' = k.tasks
        /\ nextId' = k.nextId
        /\ cumulativeSize' = k.cumulativeSize
        /\ cumulativeCost' = k.cumulativeCost
        /\ addMessageListeners' = k.addMessageListeners
        /\ removeMessageListeners' = k.removeMessageListeners
        /\ events' = k.events
        /\ result' = k.result
        /\ charged' = k.charged
        /\ transportFailed' = k.transportFailed

\* new Message(role, content, model): the object gets the next fresh id.
NewMessage(s, role, content) ==
    [s EXCEPT !.heap[s.nextId] = [role |-> role, content |-> content],
              !.nextId = @ + 1]

Suspend(s, task) == [s EXCEPT !.tasks = @ \cup {task}]

CallerKinds == { "addUserMessage", "addAssistantMessage", "prompt", "reprompt" }

\* A call of the caller, as it starts.
Call(kind, opt, arg) ==
    [ NoCall EXCEPT !.kind = kind, !.opt = opt, !.arg = arg, !.pre = messages,
                    !.quiet = \A t \in tasks : t.kind # "system" ]

\* A promise nobody awaits.
Background(kind, pc, msg, data) ==
    [NoCall EXCEPT !.kind = kind, !.pc = pc, !.msg = msg, !.data = data]

\* The call suspends: it is resumed when what it awaits settles.
Await(s, task) ==
    LET s1 == Suspend(s, task)
    IN  IF task.kind \in CallerKinds
        THEN [s1 EXCEPT !.result = [status |-> "suspended", msg |-> 0, call |-> task]]
        ELSE s1

\* The caller awaits at most one call at a time.
CallerIdle == \A t \in tasks : t.kind \notin CallerKinds

\* ---------------------------------------------------------- listeners
\* One notification: the listeners are called with message m, in list order.
Notification(type, listeners, m) == [type |-> type, msg |-> m, listeners |-> listeners]

\* Only the listener subscribed first is called.
notifyFirstAdded(s, m) ==
    [s EXCEPT !.events =
         Append(@, Notification("added",
                                SelectSeq(s.addMessageListeners,
                                          LAMBDA l : l = Head(s.addMessageListeners)),
                                m))]

notifyMessageAdded(s, m) ==
    [s EXCEPT !.events = Append(@, Notification("added", s.addMessageListeners, m))]

notifyMessageRemoved(s, m) ==
    [s EXCEPT !.events = Append(@, Notification("removed", s.removeMessageListeners, m))]

\* ------------------------------------------------------------ getters
RECURSIVE SumSize(_, _)
SumSize(h, ids) == IF ids = <<>> THEN 0 ELSE MessageSize(h[Head(ids)]) + SumSize(h, Tail(ids))

RECURSIVE SumCost(_, _)
SumCost(h, ids) == IF ids = <<>> THEN 0 ELSE MessageCost(h[Head(ids)]) + SumCost(h, Tail(ids))

getSize(s) == SumSize(s.heap, s.messages)
getCost(s) == SumCost(s.heap, s.messages)

\* getMessages(includeContext): a copy of the history, without its first
\* message when the config has a context and the caller leaves it out.
getMessages(s, includeContext) ==
    IF s.config.context = <<>>
    THEN s.messages
    ELSE IF includeContext THEN s.messages ELSE SubSeq(s.messages, 2, Len(s.messages))

LastRole(s) ==
    IF s.messages = <<>> THEN "none" ELSE s.heap[s.messages[Len(s.messages)]].role

\* The content of the first message instead of the last.
FirstContent(s) ==
    IF s.messages = <<>> THEN <<>> ELSE s.heap[s.messages[1]].content

LastContent(s) ==
    IF s.messages = <<>> THEN <<>> ELSE s.heap[s.messages[Len(s.messages)]].content

FirstRole(s) == IF s.messages = <<>> THEN "none" ELSE s.heap[s.messages[1]].role

\* ---------------------------------------------------- message admission
\* Lines 77-89 with every system message put in front, never replacing.
admitSystemUnshift(s, m) ==
    LET content == s.heap[m].content
        s1 == [s EXCEPT !.config.context = content]
    IN  [s1 EXCEPT !.messages = IF content # <<>> THEN <<m>> \o @ ELSE @]

\* addMessage, role "system": the context is recorded; a non-empty context
\* message replaces the one at index 0 or is put in front, an empty one
\* removes the one at index 0.
admitSystem(s, m) ==
    LET content == s.heap[m].content
        s1 == [s EXCEPT !.config.context = content]
    IN  IF content # <<>>
        THEN IF FirstRole(s) = "system"
             THEN [s1 EXCEPT !.messages[1] = m]
             ELSE [s1 EXCEPT !.messages = <<m>> \o @]
        ELSE IF FirstRole(s) = "system"
             THEN [s1 EXCEPT !.messages = Tail(@)]
             ELSE s1

\* Lines 91-96 without the role check.
admitTurnUnchecked(s, m) ==
    [st |-> "ok", err |-> "none", s |-> [s EXCEPT !.messages = Append(@, m)]]

\* Lines 91-96 with the push before the role check.
admitTurnPushFirst(s, m) ==
    IF LastRole(s) = s.heap[m].role
    THEN [ st |-> "throw", err |-> "AdjacentRoleViolation",
           s |-> [s EXCEPT !.messages = Append(@, m)] ]
    ELSE [st |-> "ok", err |-> "none", s |-> [s EXCEPT !.messages = Append(@, m)]]

\* addMessage, role "user" or "assistant": rejected when the last message has
\* the same role, else appended.
admitTurn(s, m) ==
    IF LastRole(s) = s.heap[m].role
    THEN [st |-> "throw", err |-> "AdjacentRoleViolation", s |-> s]
    ELSE [st |-> "ok", err |-> "none", s |-> [s EXCEPT !.messages = Append(@, m)]]

\* addMessage from its role-specific admission on: what runs once the
\* moderation, if any, has let the message through.
Admit(s, m) ==
    LET r == IF s.heap[m].role = "system"
             THEN [st |-> "ok", err |-> "none", s |-> admitSystem(s, m)]
             ELSE admitTurn(s, m)
    IN  IF r.st = "ok" THEN [r EXCEPT !.s = notifyMessageAdded(@, m)] ELSE r

\* addMessage up to its first suspension point: "await" when it suspends at
\* the moderation call, else what it threw or the state it returned in.
addMessage(s, m) ==
    LET content == Trim(s.heap[m].content)
        s1 == [s EXCEPT !.heap[m].content = content]
    IN  IF content = <<>> /\ s.heap[m].role = "user"
        THEN [st |-> "throw", err |-> "EmptyUserContent", s |-> s1]
        ELSE IF isModerationEnabled(s1.config)
             THEN [st |-> "await", err |-> "none", s |-> s1]
             ELSE Admit(s1, m)

\* The call suspended at message.moderate(): the service is sent the content
\* the message holds now.
AwaitModeration(s, call, m) ==
    Await(s, [call EXCEPT !.pc = "moderate", !.msg = m,
                            !.flagged = Flagged(s.heap[m].content)])

\* removeMessage without its notification.
removeMessageSilent(s, id) ==
    [s EXCEPT !.messages = SelectSeq(@, LAMBDA x : x # id)]

\* removeMessage without the early return of line 205.
removeMessageAlways(s, id) ==
    notifyMessageRemoved([s EXCEPT !.messages = SelectSeq(@, LAMBDA x : x # id)], id)

removeMessage(s, id) ==
    IF id \notin Range(s.messages)
    THEN s
    ELSE notifyMessageRemoved(
             [s EXCEPT !.messages = SelectSeq(@, LAMBDA x : x # id)], id)

\* An awaited call returns message m to the caller.
Return(s, call, m) ==
    IF call.kind = "system"
    THEN s
    ELSE [s EXCEPT !.result = [status |-> "ok", msg |-> m, call |-> call]]

\* A catch block that removes nothing.
RollbackNothing(s, call) == s

\* The catch block of prompt and reprompt: undo the user message (the branch
\* point), then rethrow.
Rollback(s, call) == removeMessage(s, call.user)

\* An error leaves the call.  Inside the try block of prompt/reprompt (the
\* user message or branch point is known) the catch block runs first; the
\* rejection of a context admission nobody awaits is lost.
Fail(s, call, err) ==
    LET s1 == IF call.kind \in {"prompt", "reprompt"} /\ call.user # 0
              THEN Rollback(s, call)
              ELSE s
    IN  IF call.kind = "system"
        THEN s
        ELSE [s1 EXCEPT !.result = [status |-> err, msg |-> 0, call |-> call]]

\* getAssistantResponse from `await this.addMessage(completion)` on.
AddResponse(s, call, m) ==
    LET r == addMessage(s, m)
    IN  CASE r.st = "await" -> AwaitModeration(r.s, call, m)
          [] r.st = "throw" -> Fail(r.s, call, r.err)
          [] OTHER -> Return(r.s, call, m)

\* ------------------------------------------------- response generation
handleStreamedResponse(s, call) ==
    LET m == s.nextId
        s1 == NewMessage(s, "assistant", <<>>)
        reader == IF s.config.dry
                  THEN Background("stream", "reading", m, LastContent(s))
                  ELSE Background("stream", "request", m, <<>>)
    IN  AddResponse(Suspend(s1, reader), call, m)

handleNonStreamedResponse(s, call) ==
    LET m == s.nextId
        s1 == NewMessage(s, "assistant", <<>>)
    IN  IF s.config.dry
        THEN Await(s1, [call EXCEPT !.pc = "timer", !.msg = m, !.data = LastContent(s)])
        ELSE Await(s1, [call EXCEPT !.pc = "complete", !.msg = m])

getChatCompletionResponse(s, call) ==
    LET stream == IF call.opt = "unset" THEN s.config.stream ELSE call.opt = "stream"
    IN  IF stream
        THEN handleStreamedResponse(s, call)
        ELSE handleNonStreamedResponse(s, call)

\* The counters are set, not added to.
SetCumulative(s, m) ==
    [s EXCEPT !.cumulativeSize = getSize(s) + getMessageSize(s.heap[m].content),
              !.cumulativeCost = getCost(s) + MessageCost(s.heap[m]),
              !.charged = @ \cup {m}]

\* The counters grow by the size/cost of the history plus those of response m.
AddToCumulative(s, m) ==
    [s EXCEPT !.cumulativeSize = @ + getSize(s) + getMessageSize(s.heap[m].content),
              !.cumulativeCost = @ + getCost(s) + MessageCost(s.heap[m]),
              !.charged = @ \cup {m}]

\* ------------------------------------------------------ the operations
addSystemMessage(s, text) ==
    LET m == s.nextId
        s1 == NewMessage(s, "system", text)
        r == addMessage(s1, m)
    IN  IF r.st = "await"
        THEN AwaitModeration(r.s, Background("system", "start", m, <<>>), m)
        ELSE r.s

clearMessages(s) == addSystemMessage([s EXCEPT !.messages = <<>>], s.config.context)

setContext(s, context) == addSystemMessage(s, context)

\* setConfig(config, merge); a config without a context is Unset.
setConfig(s, moderation, stream, dry, context, merge) ==
    LET newContext == IF merge /\ context = Unset THEN s.config.context ELSE context
        s1 == [s EXCEPT !.config = ConversationConfig(moderation, stream, dry, newContext)]
    IN  IF context # Unset /\ context # <<>>
        THEN setContext(s1, context)
        ELSE s1

\* addUserMessage / addAssistantMessage, awaited by the caller.
AddPlain(s, kind, role, text) ==
    LET m == s.nextId
        call == Call(kind, "unset", <<>>)
        r == addMessage(NewMessage(s, role, text), m)
    IN  CASE r.st = "await" -> AwaitModeration(r.s, call, m)
          [] r.st = "throw" -> Fail(r.s, call, r.err)
          [] OTHER -> Return(r.s, call, m)

prompt(s, text, opt) ==
    LET m == s.nextId
        call == Call("prompt", opt, <<>>)
        r == addMessage(NewMessage(s, "user", text), m)
    IN  CASE r.st = "await" -> AwaitModeration(r.s, call, m)
          [] r.st = "throw" -> Fail(r.s, call, r.err)
          [] OTHER -> getChatCompletionResponse(r.s, [call EXCEPT !.user = m])

\* clearMessages as the caller calls it: it returns nothing.
ClearPlain(s) == Return(clearMessages(s), Call("clearMessages", "unset", <<>>), 0)

\* removeMessage as the caller calls it: it returns nothing.
RemovePlain(s, id) ==
    Return(removeMessage(s, id), [Call("removeMessage", "unset", <<>>) EXCEPT !.from = id], 0)

IndexOf(seq, id) ==
    IF id \in Range(seq) THEN CHOOSE i \in 1..Len(seq) : seq[i] = id ELSE 0

\* The messages are cut off the history at once, without removeMessage.
RemoveAtOnce(s, ids) ==
    [s EXCEPT !.messages = SelectSeq(@, LAMBDA x : x \notin Range(ids))]

RECURSIVE RemoveEach(_, _)
RemoveEach(s, ids) ==
    IF ids = <<>> THEN s ELSE RemoveEach(removeMessage(s, Head(ids)), Tail(ids))

\* A slice that starts one message too late.
AfterBranchLate(s, index) == SubSeq(s.messages, index + 2, Len(s.messages))

\* this.messages.slice(previousUserMessageIndex + 1), 1-based
AfterBranch(s, index) == SubSeq(s.messages, index + 1, Len(s.messages))

\* The message reprompt branches from: index 0 when there is none.
BranchIndex(s, fromIndex) ==
    IF s.heap[s.messages[fromIndex]].role = "user" THEN fromIndex ELSE fromIndex - 1

reprompt(s, from, newPrompt, opt) ==
    LET call == [Call("reprompt", opt, newPrompt) EXCEPT !.from = from]
        fromIndex == IndexOf(s.messages, from)
    IN  IF fromIndex = 0
        THEN Fail(s, call, "MessageNotFound")
        ELSE LET previousUserMessageIndex == BranchIndex(s, fromIndex)
             IN  IF previousUserMessageIndex = 0
                 THEN Fail(s, call, "NoPriorUserMessage")
                 ELSE LET previousUserMessage == s.messages[previousUserMessageIndex]
                          s1 == IF newPrompt # <<>>
                                THEN [s EXCEPT !.heap[previousUserMessage].content = newPrompt]
                                ELSE s
                          s2 == RemoveEach(s1, AfterBranch(s1, previousUserMessageIndex))
                      IN  getChatCompletionResponse(
                              s2, [call EXCEPT !.user = previousUserMessage])

\* The role of the last message of the history the call saw when it was issued.
StaleLastRole(s, t) ==
    IF t.pre = <<>> THEN "none" ELSE s.heap[t.pre[Len(t.pre)]].role

\* addMessage with the role check of lines 91-95 made before the moderation
\* call: on the history as it was when the call was issued.
ResumeModerationStale(s, t, transportOk) ==
    IF ~transportOk
    THEN Fail(s, t, "TransportError")
    ELSE IF isModerationStrict(s.config) /\ t.flagged
         THEN Fail(s, t, "ModerationViolation")
         ELSE IF t.kind = "system"
              THEN Return(notifyMessageAdded(admitSystem(s, t.msg), t.msg), t, t.msg)
              ELSE IF StaleLastRole(s, t) = s.heap[t.msg].role
                   THEN Fail(s, t, "AdjacentRoleViolation")
                   ELSE LET r == admitTurnUnchecked(s, t.msg)
                            s1 == notifyMessageAdded(r.s, t.msg)
                        IN  IF t.kind = "prompt" /\ t.user = 0
                            THEN getChatCompletionResponse(s1, [t EXCEPT !.user = t.msg])
                            ELSE Return(s1, t, t.msg)

\* A suspended addMessage resumes: the moderation call threw, or answered
\* with the flags of the content it was sent.
ResumeModeration(s, t, transportOk) ==
    IF ~transportOk
    THEN Fail(s, t, "TransportError")
    ELSE IF isModerationStrict(s.config) /\ t.flagged
         THEN Fail(s, t, "ModerationViolation")
         ELSE LET r == Admit(s, t.msg)
              IN  CASE r.st = "throw" -> Fail(r.s, t, r.err)
                    [] t.kind = "prompt" /\ t.user = 0 ->
                          getChatCompletionResponse(r.s, [t EXCEPT !.user = t.msg])
                    [] OTHER -> Return(r.s, t, t.msg)

\* The response is admitted and the counters are left alone.
ResumeCompletionUncounted(s, t, content) ==
    AddResponse([s EXCEPT !.heap[t.msg].content = content], t, t.msg)

\* handleNonStreamedResponse resumes after createChatCompletion (or the
\* dry-run delay): the response content is set, the counters grow, and
\* getAssistantResponse admits the message.
ResumeCompletion(s, t, content) ==
    LET s1 == [s EXCEPT !.heap[t.msg].content = content]
    IN  AddResponse(AddToCumulative(s1, t.msg), t, t.msg)

FailCompletion(s, t) ==
    Fail([s EXCEPT !.transportFailed = @ \cup {t.msg}], t, "TransportError")

\* The one-shot subscriber of the message's streaming-stop event.
StreamingStop(s, m) == AddToCumulative(s, m)

\* The promise of createChatCompletion({stream: true}) rejects: nothing
\* catches it, the message is never read into.
FailStream(s, t) == [s EXCEPT !.transportFailed = @ \cup {t.msg}]

\* --------------------------------------------------------- the actions
Configs ==
    { ConversationConfig(m, st, d, c) :
        m \in Moderations, st \in BOOLEAN, d \in BOOLEAN, c \in ContextTexts }

Blank(cfg) ==
    [ messages |-> <<>>, heap |-> [i \in Ids |-> NoMsg], config |-> cfg, tasks |-> {},
      nextId |-> 1, cumulativeSize |-> 0, cumulativeCost |-> 0,
      addMessageListeners |-> <<>>, removeMessageListeners |-> <<>>,
      events |-> <<>>, result |-> NoResult, charged |-> {}, transportFailed |-> {} ]

\* constructor: the config is built and clearMessages is called.
Init ==
    \E cfg \in Configs :
        \E s \in {Kept(clearMessages(Blank(cfg)), 1)} :
            /\ messages = s.messages
            /\ heap = s.heap
            /\ config = s.config
            /\ tasks = s.tasks
            /\ nextId = s.nextId
            /\ cumulativeSize = s.cumulativeSize
            /\ cumulativeCost = s.cumulativeCost
            /\ addMessageListeners = s.addMessageListeners
            /\ removeMessageListeners = s.removeMessageListeners
            /\ events = s.events
            /\ result = s.result
            /\ charged = s.charged
            /\ transportFailed = s.transportFailed

CanCreate(n) == nextId + n - 1 <= MaxIds

Running(kind) == Cardinality({ t \in tasks : t.kind = kind })

\* The caller starts an operation that may leave a promise running.
CanSetContext == Running("system") < MaxPendingContexts
CanComplete == Running("stream") < MaxStreams

AddUserMessage ==
    /\ CallerIdle /\ CanCreate(1)
    /\ \E text \in Texts : Commit(AddPlain(Begin, "addUserMessage", "user", text))

AddAssistantMessage ==
    /\ CallerIdle /\ CanCreate(1)
    /\ \E text \in Texts : Commit(AddPlain(Begin, "addAssistantMessage", "assistant", text))

Prompt ==
    /\ CallerIdle /\ CanComplete /\ CanCreate(2)
    /\ \E text \in Texts, opt \in StreamOptions : Commit(prompt(Begin, text, opt))

Reprompt ==
    /\ CallerIdle /\ CanComplete /\ CanCreate(1)
    /\ \E from \in Ids, newPrompt \in NewPrompts, opt \in StreamOptions :
           Commit(reprompt(Begin, from, newPrompt, opt))

RemoveMessage ==
    /\ CallerIdle
    /\ \E id \in Ids : Commit(RemovePlain(Begin, id))

ClearMessages ==
    /\ CallerIdle /\ CanSetContext /\ CanCreate(1)
    /\ Commit(ClearPlain(Begin))

SetContext ==
    /\ CallerIdle /\ CanSetContext /\ CanCreate(1)
    /\ \E context \in ContextTexts : Commit(setContext(Begin, context))

SetConfig ==
    /\ CallerIdle /\ CanSetContext /\ CanCreate(1)
    /\ \E m \in Moderations, st \in BOOLEAN, d \in BOOLEAN,
          c \in ContextTexts \cup {Unset}, merge \in BOOLEAN :
           Commit(setConfig(Begin, m, st, d, c, merge))

OnMessageAdded ==
    /\ CallerIdle /\ Len(addMessageListeners) < MaxListeners
    /\ \E l \in Listeners : Commit([Begin EXCEPT !.addMessageListeners = Append(@, l)])

OffMessageAdded ==
    /\ CallerIdle
    /\ \E l \in Listeners :
           Commit([Begin EXCEPT !.addMessageListeners = SelectSeq(@, LAMBDA x : x # l)])

OnMessageRemoved ==
    /\ CallerIdle /\ Len(removeMessageListeners) < MaxListeners
    /\ \E l \in Listeners : Commit([Begin EXCEPT !.removeMessageListeners = Append(@, l)])

OffMessageRemoved ==
    /\ CallerIdle
    /\ \E l \in Listeners :
           Commit([Begin EXCEPT !.removeMessageListeners = SelectSeq(@, LAMBDA x : x # l)])

Resumed(t) == [Begin EXCEPT !.tasks = @ \ {t}]

ModerationReturns ==
    \E t \in tasks, transportOk \in BOOLEAN :
        /\ t.pc = "moderate"
        /\ Commit(ResumeModeration(Resumed(t), t, transportOk))

CompletionReturns ==
    \E t \in tasks, content \in Replies :
        /\ t.pc = "complete"
        /\ Commit(ResumeCompletion(Resumed(t), t, content))

CompletionFails ==
    \E t \in tasks :
        /\ t.pc = "complete"
        /\ Commit(FailCompletion(Resumed(t), t))

DryDelayElapses ==
    \E t \in tasks :
        /\ t.pc = "timer"
        /\ Commit(ResumeCompletion(Resumed(t), t, t.data))

StreamOpens ==
    \E t \in tasks, content \in Replies :
        /\ t.pc = "request"
        /\ Commit(Suspend(Resumed(t), [t EXCEPT !.pc = "reading", !.data = content]))

StreamFails ==
    \E t \in tasks :
        /\ t.pc = "request"
        /\ Commit(FailStream(Resumed(t), t))

\* readContentFromStream: one delta is appended to the content.
StreamDelta ==
    \E t \in tasks :
        /\ t.pc = "reading" /\ t.data # <<>>
        /\ Commit(Suspend([Resumed(t) EXCEPT !.heap[t.msg].content = Append(@, Head(t.data))],
                          [t EXCEPT !.data = Tail(@)]))

\* readContentFromStream: the stream ends, the streaming-stop event fires.
StreamEnds ==
    \E t \in tasks :
        /\ t.pc = "reading" /\ t.data = <<>>
        /\ Commit(StreamingStop(Resumed(t), t.msg))

Next ==
    \/ AddUserMessage \/ AddAssistantMessage \/ Prompt \/ Reprompt
    \/ RemoveMessage \/ ClearMessages \/ SetContext \/ SetConfig
    \/ ModerationReturns \/ CompletionReturns \/ CompletionFails \/ DryDelayElapses
    \/ StreamOpens \/ StreamFails \/ StreamDelta \/ StreamEnds

Spec == Init /\ [][Next]_vars

\* The caller also subscribes and unsubscribes message-added listeners (and
\* keeps the config it constructed the conversation with).
NextListeners ==
    \/ AddUserMessage \/ AddAssistantMessage \/ Prompt \/ Reprompt
    \/ RemoveMessage \/ ClearMessages \/ SetContext
    \/ ModerationReturns \/ CompletionReturns \/ CompletionFails \/ DryDelayElapses
    \/ StreamOpens \/ StreamFails \/ StreamDelta \/ StreamEnds
    \/ OnMessageAdded \/ OffMessageAdded

SpecListeners == Init /\ [][NextListeners]_vars

\* The caller only adds messages.
NextAdds == AddUserMessage \/ AddAssistantMessage \/ ModerationReturns

SpecAdds == Init /\ [][NextAdds]_vars

\* The caller issues calls without awaiting the ones before: each of these
\* starts whether or not an earlier call is still suspended.
ConcurrentAddUserMessage ==
    /\ CanCreate(1)
    /\ \E text \in Texts : Commit(AddPlain(Begin, "addUserMessage", "user", text))

ConcurrentAddAssistantMessage ==
    /\ CanCreate(1)
    /\ \E text \in Texts : Commit(AddPlain(Begin, "addAssistantMessage", "assistant", text))

ConcurrentSetContext ==
    /\ CanCreate(1)
    /\ \E context \in ContextTexts : Commit(setContext(Begin, context))

\* Concurrently issued additions and context changes, and no removal.
NextConcurrent ==
    \/ ConcurrentAddUserMessage \/ ConcurrentAddAssistantMessage
    \/ ConcurrentSetContext \/ ModerationReturns

SpecConcurrent == Init /\ [][NextConcurrent]_vars

\* ---------------------------------------------------------- the claims
Remove(seq, id) == SelectSeq(seq, LAMBDA x : x # id)

RoleAt(i) == heap[messages[i]].role

Finished(r) == r.status \notin {"none", "suspended"}
Failed(r) == r.status \notin {"none", "suspended", "ok"}

AddKinds == { "addUserMessage", "addAssistantMessage" }
AddedRole(kind) == IF kind = "addUserMessage" THEN "user" ELSE "assistant"

NoContextPending == \A t \in tasks : t.kind # "system"

\* No two adjacent messages, system messages aside, have the same role.
AlternatingRoles ==
    \A i \in 1..(Len(messages) - 1) :
        (RoleAt(i) # "system" /\ RoleAt(i + 1) # "system") => RoleAt(i) # RoleAt(i + 1)

\* C1: in every reachable state the history holds at most one system
\* message, and a system message is the first message.
C1_SystemOnlyFirst ==
    \A i \in 1..Len(messages) : RoleAt(i) = "system" => i = 1

\* A context message was replaced in a history that goes on after it.
C1_Witness ==
    /\ Len(messages) >= 2
    /\ RoleAt(1) = "system"
    /\ messages[1] > messages[2]

\* C2: when the caller only adds user and assistant messages, one awaited
\* call after the other, the roles of the history alternate (a leading system
\* message aside); a call whose role is that of the last message fails and
\* appends nothing, and a call that succeeds appends its message.
C2_AddsAlternate ==
    /\ []AlternatingRoles
    /\ [][ (result'.call.kind \in AddKinds /\ Finished(result')) =>
             /\ (LastRole(Cur) = AddedRole(result'.call.kind) =>
                    /\ Failed(result')
                    /\ messages' = messages)
             /\ (result'.status = "ok" =>
                    /\ messages' = Append(messages, result'.msg)
                    /\ heap'[result'.msg].role = AddedRole(result'.call.kind)) ]_vars

\* An assistant message was refused after an assistant message.
C2_Witness ==
    /\ result.call.kind = "addAssistantMessage"
    /\ result.status = "AdjacentRoleViolation"
    /\ Len(messages) >= 2
    /\ LastRole(Cur) = "assistant"

\* C3: after every public operation no two adjacent non-system messages of
\* the history have the same role.
C3_AlternatingAfterEveryOperation ==
    \A i \in 1..(Len(messages) - 1) :
        (RoleAt(i) # "system" /\ RoleAt(i + 1) # "system") => RoleAt(i) # RoleAt(i + 1)

\* C4: once no context admission is pending, the first message is a system
\* message iff the context of the config is not empty.
C4_SystemFirstIffContext ==
    NoContextPending => ((FirstRole(Cur) = "system") <=> (config.context # <<>>))

\* C5: no step lowers cumulativeSize or cumulativeCost.
C5_CountersNeverDecrease ==
    [][cumulativeSize' >= cumulativeSize /\ cumulativeCost' >= cumulativeCost]_vars

\* The counters are positive and the history has been emptied since.
C5_Witness ==
    /\ cumulativeSize > 0
    /\ cumulativeCost > 0
    /\ messages = <<>>
    /\ tasks = {}

PromptKinds == { "prompt", "reprompt" }

\* The call asked for a streamed response.
Streamed(c) == IF c.opt = "unset" THEN config.stream ELSE c.opt = "stream"

Streaming(m) == \E t \in tasks : t.kind = "stream" /\ t.msg = m

\* C6: a prompt that fails after its user message was admitted has changed
\* the history by nothing: each step of the call that suspends appends at
\* most its user message, the failing step removes that message and nothing
\* else and hands the error to the caller, and when no context admission was
\* pending at the call the history is the sequence of ids it was before.
C6_FailedPromptRestoresHistory ==
    [][ LET c == result'.call
        IN  /\ (c.kind = "prompt" /\ result'.status = "suspended") =>
                  messages' = IF c.user # 0 /\ c.user \notin Range(messages)
                              THEN Append(messages, c.user)
                              ELSE messages
            /\ (c.kind = "prompt" /\ Failed(result') /\ c.user # 0) =>
                  /\ c.user \in Range(messages)
                  /\ messages' = Remove(messages, c.user)
                  /\ c.user \notin Range(c.pre)
                  /\ c.quiet => messages' = c.pre
                  /\ result'.status \in
                       {"TransportError", "ModerationViolation", "AdjacentRoleViolation"} ]_vars

\* A prompt called on a non-empty history failed at its completion request
\* and the history is what it was.
C6_Witness ==
    /\ result.call.kind = "prompt"
    /\ result.status = "TransportError"
    /\ result.call.pc = "complete"
    /\ result.call.user # 0
    /\ result.call.quiet
    /\ messages # <<>>
    /\ messages = result.call.pre

\* C7: no response whose completion request failed, streamed or batched, is
\* left in the history.
C7_TransportFailureRollsBack ==
    \A m \in transportFailed : m \notin Range(messages)

\* C8 as stated: a prompt or reprompt that is rolled back has added nothing
\* to the counters.
C8_RolledBackTurnUncounted ==
    [][ LET c == result'.call
        IN  (c.kind \in PromptKinds /\ Failed(result') /\ c.user # 0) =>
                /\ c.msg \notin charged
                /\ cumulativeSize' = cumulativeSize
                /\ cumulativeCost' = cumulativeCost ]_vars

\* C8: the counters count the completion requests that were answered, not
\* the turns that were committed.  When a prompt or reprompt is rolled back:
\* if its completion request failed, the turn has added nothing; if its
\* response was rejected at admission, the batched response has been counted
\* (a streamed one is counted when its stream stops), and the rollback takes
\* nothing back.
C8_CountersCountAnsweredRequests ==
    [][ LET c == result'.call
        IN  (c.kind \in PromptKinds /\ Failed(result') /\ c.user # 0) =>
                /\ cumulativeSize' >= cumulativeSize
                /\ cumulativeCost' >= cumulativeCost
                /\ (c.pc = "complete" /\ result'.status = "TransportError") =>
                       /\ c.msg \notin charged
                       /\ cumulativeSize' = cumulativeSize
                       /\ cumulativeCost' = cumulativeCost
                /\ (c.pc \in {"complete", "timer"} /\ result'.status # "TransportError") =>
                       /\ cumulativeSize' >= cumulativeSize + getSize(Cur)
                       /\ cumulativeCost' >= cumulativeCost + getCost(Cur)
                /\ c.pc = "moderate" =>
                       /\ cumulativeSize' = cumulativeSize
                       /\ cumulativeCost' = cumulativeCost
                       /\ IF Streamed(c)
                          THEN c.msg \in charged \/ c.msg \in transportFailed \/ Streaming(c.msg)
                          ELSE c.msg \in charged ]_vars

\* A batched response was rejected by the strict moderation and the turn was
\* rolled back; the counters hold what the request added.
C8_Witness ==
    /\ result.call.kind \in PromptKinds
    /\ result.status = "ModerationViolation"
    /\ result.call.user # 0
    /\ ~Streamed(result.call)
    /\ result.call.user \notin Range(messages)
    /\ cumulativeSize > 0
    /\ cumulativeCost > 0

Rejections == { "EmptyUserContent", "AdjacentRoleViolation", "ModerationViolation" }

\* C10: an addUserMessage/addAssistantMessage call that is rejected has left
\* the conversation as it was: no step of the call changes the history, the
\* messages of the history, the config or the counters, and none calls the
\* message-added listeners.
C10_RejectedAdmissionChangesNothing ==
    [][ LET c == result'.call
        IN  (/\ c.kind \in AddKinds
             /\ result'.status \in Rejections \cup {"suspended"}) =>
                /\ messages' = messages
                /\ \A m \in Range(messages) : heap'[m] = heap[m]
                /\ config' = config
                /\ cumulativeSize' = cumulativeSize
                /\ cumulativeCost' = cumulativeCost
                /\ \A i \in 1..Len(events') : events'[i].type # "added" ]_vars

\* A user message was refused after a user message while a listener was
\* subscribed.
C10_Witness ==
    /\ result.call.kind = "addUserMessage"
    /\ result.status = "AdjacentRoleViolation"
    /\ addMessageListeners # <<>>
    /\ Len(messages) = 2
    /\ RoleAt(1) = "system"
    /\ RoleAt(2) = "user"

\* The calls that are given a message id.
TargetKinds == { "reprompt", "removeMessage" }

\* The step in which the caller called reprompt or removeMessage with an id
\* the history does not hold, and the call has returned or thrown.
UnknownTarget(c, r) ==
    /\ CallerIdle
    /\ c.kind \in TargetKinds
    /\ Finished(r)
    /\ c.from \notin Range(messages)

\* C11 as stated: reprompt and removeMessage, given an id that is not in the
\* history, both fail with MessageNotFound and leave the history unchanged.
C11_UnknownIdFails ==
    [][ UnknownTarget(result'.call, result') =>
            /\ result'.status = "MessageNotFound"
            /\ messages' = messages ]_vars

\* C11: given an id that is not in the history, reprompt fails with
\* MessageNotFound and removeMessage returns without an error; both leave
\* the history and its messages unchanged and notify nobody.
C11_UnknownIdChangesNothing ==
    [][ UnknownTarget(result'.call, result') =>
            /\ messages' = messages
            /\ \A m \in Range(messages) : heap'[m] = heap[m]
            /\ events' = <<>>
            /\ tasks' = tasks
            /\ result'.call.kind = "reprompt" => result'.status = "MessageNotFound"
            /\ result'.call.kind = "removeMessage" => result'.status = "ok" ]_vars

\* removeMessage was called on a history of two messages with an id that is
\* not among them, and it returned.
C11_Witness ==
    /\ result.call.kind = "removeMessage"
    /\ result.status = "ok"
    /\ result.call.from \notin Range(messages)
    /\ events = <<>>
    /\ Len(messages) >= 2

\* C12: reprompt from an assistant message whose preceding message is absent
\* or is not a user message fails with NoPriorUserMessage, and neither
\* overwrites nor removes a message.
C12_BranchPointIsUser ==
    [][ LET c == result'.call
            fromIndex == IndexOf(messages, c.from)
        IN  (/\ CallerIdle
             /\ c.kind = "reprompt"
             /\ fromIndex > 0
             /\ heap[c.from].role = "assistant"
             /\ (fromIndex = 1 \/ heap[messages[fromIndex - 1]].role # "user")) =>
                /\ result'.status = "NoPriorUserMessage"
                /\ messages' = messages
                /\ \A m \in Range(messages) : heap'[m] = heap[m] ]_vars

\* The stream read by t ends in this step.
Stops(t) == t.kind = "stream" /\ t.pc = "reading" /\ t.data = <<>> /\ t \notin tasks'

\* C13: when a streamed response stops, the counters grow by the size/cost
\* of the history without the response plus the size/cost of the response:
\* the response is counted once, as in the batched path.
C13_StreamedResponseCountedOnce ==
    [][ \A t \in tasks :
            Stops(t) =>
                LET before == Remove(messages, t.msg)
                IN  /\ cumulativeSize' =
                           cumulativeSize + SumSize(heap, before) + MessageSize(heap[t.msg])
                    /\ cumulativeCost' =
                           cumulativeCost + SumCost(heap, before) + MessageCost(heap[t.msg]) ]_vars

\* The notifications of kind type made for message m in the step.
Notified(type, m) == { i \in 1..Len(events') : events'[i].type = type /\ events'[i].msg = m }

\* C14: in the step in which a message enters the history, the message-added
\* listeners are notified of it once, all those subscribed at that moment, in
\* the order they subscribed (so none that was unsubscribed); every
\* message-added notification is made that way; and an add call that returns
\* has made the notification of its message last.
C14_AddedListenersNotified ==
    [][ /\ \A m \in Range(messages') \ Range(messages) :
              /\ Cardinality(Notified("added", m)) = 1
              /\ \A i \in Notified("added", m) :
                     events'[i] = Notification("added", addMessageListeners, m)
        /\ \A i \in 1..Len(events') :
              events'[i].type = "added" => events'[i].listeners = addMessageListeners
        /\ (result'.call.kind \in AddKinds /\ result'.status = "ok") =>
              /\ events' # <<>>
              /\ events'[Len(events')] =
                     Notification("added", addMessageListeners, result'.msg)
              /\ result'.msg \in Range(messages') ]_vars

\* Two different listeners, subscribed in the order l2, l1, were notified of
\* a message that was appended to a non-empty history.
C14_Witness ==
    /\ addMessageListeners = << "l2", "l1" >>
    /\ Len(messages) >= 2
    /\ events = << Notification("added", << "l2", "l1" >>, messages[Len(messages)]) >>

\* The messages that leave the history in the step.
Leaving == Range(messages) \ Range(messages')

\* C15 as stated: a message leaves the history only through removeMessage,
\* which notifies the message-removed listeners of it, or through
\* clearMessages.
C15_OnlyRemovalRemoves ==
    [][ \A m \in Leaving :
            \/ result'.call.kind = "clearMessages"
            \/ Notified("removed", m) # {} ]_vars

\* The step admits a context: the system message at the head of the history
\* is replaced by a new system message or, the context being empty, dropped,
\* and the rest of the history stays.
ContextAdmitted ==
    /\ messages # <<>>
    /\ RoleAt(1) = "system"
    /\ IF config'.context = <<>>
       THEN messages' = Tail(messages)
       ELSE /\ messages' # <<>>
            /\ heap'[messages'[1]] = [role |-> "system", content |-> config'.context]
            /\ Tail(messages') = Tail(messages)

\* C15: a message leaves the history only through removeMessage, which
\* notifies the message-removed listeners of it once, through clearMessages,
\* or, for the system message at index 0, through the admission of a context,
\* which replaces or drops it without a message-removed notification.
C15_LeavesByRemovalOrContext ==
    [][ \A m \in Leaving :
            \/ /\ result'.call.kind = "clearMessages"
               /\ Len(messages') <= 1
            \/ Cardinality(Notified("removed", m)) = 1
            \/ /\ m = messages[1]
               /\ ContextAdmitted
               /\ Leaving = {m}
               /\ Notified("removed", m) = {} ]_vars

\* A context was admitted over the system message of a history that goes on
\* after it: the old system message is gone and nobody was told.
C15_Witness ==
    /\ Len(messages) >= 2
    /\ RoleAt(1) = "system"
    /\ RoleAt(2) # "system"
    /\ messages[1] > messages[2]
    /\ events = << Notification("added", addMessageListeners, messages[1]) >>

\* The stream of message m is being read in the next state, and what it
\* has delivered and what it still holds make up text.
Delivering(m, text) ==
    \E t \in tasks' :
        /\ t.kind = "stream" /\ t.pc = "reading" /\ t.msg = m
        /\ heap'[m].content \o t.data = text

\* C16: in dry-run mode a prompt that returns has echoed its user message.
\* Batched: the content of the message returned is the (trimmed, non-empty)
\* content of the user message and cumulativeSize is positive.  Streamed: the
\* stream of the message returned carries that content; each delta moves its
\* first character to the content of the message; and the step in which the
\* stream stops adds at least the size of the content to cumulativeSize.
C16_DryRunEchoes ==
    [][ LET c == result'.call
            r == result'
        IN  /\ (c.kind = "prompt" /\ r.status = "ok" /\ config.dry) =>
                  LET text == heap'[c.user].content
                  IN  /\ text # <<>>
                      /\ text = Trim(text)
                      /\ c.user \in Range(messages')
                      /\ IF Streamed(c)
                         THEN \/ Delivering(r.msg, text)
                              \/ /\ heap'[r.msg].content = text
                                 /\ cumulativeSize' > 0
                         ELSE /\ heap'[r.msg].content = text
                              /\ cumulativeSize' > 0
            /\ \A t \in tasks :
                  (t.kind = "stream" /\ t.pc = "reading" /\ t \notin tasks') =>
                      IF t.data = <<>>
                      THEN cumulativeSize' >= cumulativeSize + Len(heap[t.msg].content)
                      ELSE Delivering(t.msg, heap[t.msg].content \o t.data) ]_vars

\* A batched dry-run prompt returned on a history that starts with a context:
\* its response holds the content of its user message.
C16_Witness ==
    /\ result.call.kind = "prompt"
    /\ result.status = "ok"
    /\ config.dry
    /\ ~Streamed(result.call)
    /\ messages = << messages[1], result.call.user, result.msg >>
    /\ RoleAt(1) = "system"
    /\ heap[result.msg].content = heap[result.call.user].content
    /\ heap[result.msg].content # heap[messages[1]].content
    /\ cumulativeSize > 0

\* The history up to, and without, message id.
Before(seq, id) == SubSeq(seq, 1, IndexOf(seq, id) - 1)

\* C17: a reprompt that fails while it requests or admits the response
\* removes its branch point and hands the error to the caller.  The failing
\* step removes the branch point (and, when it is the step of the call, the
\* messages after it) and nothing else, and notifies the message-removed
\* listeners of the branch point last; when no context admission was pending
\* at the call, the branch point was still in the history and the history is
\* left as the one the call was made on, cut before the branch point.
C17_FailedRepromptRemovesBranch ==
    [][ LET c == result'.call
        IN  (c.kind = "reprompt" /\ Failed(result') /\ c.user # 0) =>
                /\ result'.status \in
                       {"TransportError", "ModerationViolation", "AdjacentRoleViolation"}
                /\ messages' = IF CallerIdle
                               THEN Before(messages, c.user)
                               ELSE Remove(messages, c.user)
                /\ c.user \in Range(messages) =>
                       /\ Cardinality(Notified("removed", c.user)) = 1
                       /\ events'[Len(events')] =
                              Notification("removed", removeMessageListeners, c.user)
                /\ c.quiet =>
                       /\ c.user \in Range(messages)
                       /\ messages' = Before(c.pre, c.user) ]_vars

\* A reprompt from the second message of a history failed at its completion
\* request: the first message is all that is left.
C17_Witness ==
    /\ result.call.kind = "reprompt"
    /\ result.status = "TransportError"
    /\ result.call.pc = "complete"
    /\ result.call.quiet
    /\ Len(result.call.pre) = 2
    /\ result.call.user = result.call.pre[2]
    /\ messages = << result.call.pre[1] >>
    /\ events = << Notification("removed", removeMessageListeners, result.call.user) >>

\* The messages after message id.
After(seq, id) == SubSeq(seq, IndexOf(seq, id) + 1, Len(seq))

Ended(t) == t.kind = "stream" /\ \A t2 \in tasks' : t2.kind = "stream" => t2.msg # t.msg

\* C19: every streamed response reaches the stopped state once the service
\* has answered: the reading of a streamed response ends in no other way than
\* by the end of its stream, where the streaming-stop subscriber updates the
\* counters.
C19_StreamedResponseStops ==
    [][ \A t \in tasks :
            Ended(t) =>
                /\ t.pc = "reading"
                /\ t.data = <<>>
                /\ cumulativeSize' = cumulativeSize + getSize(Cur) + MessageSize(heap[t.msg])
                /\ cumulativeCost' = cumulativeCost + getCost(Cur) + MessageCost(heap[t.msg]) ]_vars

\* C20: under any interleaving of concurrently issued additions and context
\* changes that suspend at the moderation call, with no removals, a system
\* message is only ever the first message and no two adjacent non-system
\* messages have the same role: the step that appends a message is the step
\* that finds the last message of another role.
C20_ConcurrentAddsKeepShape ==
    /\ [](C1_SystemOnlyFirst /\ AlternatingRoles)
    /\ [][ \A m \in Range(messages') \ Range(messages) :
               heap'[m].role # "system" =>
                   /\ messages' = Append(messages, m)
                   /\ LastRole(Cur) # heap'[m].role ]_vars

\* A call that could have been admitted when it was issued is refused: a call
\* issued while it was suspended was admitted first.
C20_Witness ==
    /\ result.call.kind \in AddKinds
    /\ result.call.pc = "moderate"
    /\ result.status = "AdjacentRoleViolation"
    /\ StaleLastRole(Cur, result.call) # AddedRole(result.call.kind)
    /\ LastRole(Cur) = AddedRole(result.call.kind)
    /\ Len(messages) > Len(result.call.pre)

\* C21: under the strict moderation policy no message of the history holds a
\* content the moderation service flags.
C21_StrictHistoryUnflagged ==
    isModerationStrict(config) =>
        \A i \in 1..Len(messages) : ~Flagged(heap[messages[i]].content)

\* C22: in every reachable state getMessages(false) is the history without
\* its system messages, in order, and getMessages(true) is the whole history.
C22_GetMessagesLeavesOutContext ==
    /\ getMessages(Cur, FALSE) = SelectSeq(messages, LAMBDA m : heap[m].role # "system")
    /\ getMessages(Cur, TRUE) = messages

\* C23: a message-added listener is only called with a message that is in the
\* history when it is called: every message the last step notified a listener
\* of is in the history, unless the same step removed it afterwards.
C23_AddedListenersGetHistoryMessages ==
    \A i \in 1..Len(events) :
        (events[i].type = "added" /\ events[i].listeners # <<>>) =>
            \/ events[i].msg \in Range(messages)
            \/ \E j \in (i + 1)..Len(events) :
                   events[j].type = "removed" /\ events[j].msg = events[i].msg

====
